---- MODULE Spec2Model ----
(***************************************************************************)
(* Model of bevy_tilemap's Chunk (src/chunk/mod.rs): a grid cell owning    *)
(* z_layers, a sequence (z depth) of sequences (sprite order) of sprite    *)
(* layers, each Dense or Sparse, plus a mesh handle and an entity slot.    *)
(* Rust indices are 0-based; TLA+ sequences are 1-based, so the sprite     *)
(* layer at (z, sprite_order) is z_layers[z + 1][sprite_order + 1].        *)
(***************************************************************************)
EXTENDS Integers, Sequences, FiniteSets, TLC

\* Bounds of the model.
MaxWidth == 2
MaxHeight == 1
MaxDepth == 2
MaxLayers == 2
MaxSprite == 1
MaxOps == 3
MaxPairOps == 2

None == "None"
Tints == {"red", "green"}
Meshes == {"mesh0", "mesh1"}
InitialMesh == "mesh0"
Entities == {"entity1", "entity2"}
LayerKinds == {"Dense", "Sparse"}

\* RawTile { index: 0, color: Color::rgba(0.0, 0.0, 0.0, 0.0) }
Placeholder == [index |-> 0, color |-> "clear"]

RawTiles == {[index |-> s, color |-> t] : s \in 1..MaxSprite, t \in Tints}

\* chunk: the Chunk; dimensions: the Dimension3 its owner constructed it with
\* and passes to add_layer; layers_len: layers.len() of the constructor's
\* layers array; pre, last: the chunk before the last call, and that call;
\* nops: the number of calls made since construction; pending: the entity
\* of the most recent add_entity that no take_entity has followed (None
\* otherwise), kept from the calls alone; handed: the number of take_entity
\* calls that returned an entity.
VARIABLES chunk, dimensions, layers_len, pre, last, nops, pending, handed

vars == <<chunk, dimensions, layers_len, pre, last, nops, pending, handed>>

Area(dims) == dims.width * dims.height

(***************************************************************************)
(* Layer storage (module chunk::layer).                                    *)
(***************************************************************************)
NoTiles == [i \in {} |-> Placeholder]

SparseLayerNew == [kind |-> "Sparse", tiles |-> NoTiles]

DenseLayerNew(n) == [kind |-> "Dense", tiles |-> [i \in 0..(n - 1) |-> Placeholder]]

LayerSetTile(inner, index, raw) ==
    IF inner.kind = "Dense"
    THEN [inner EXCEPT !.tiles = [i \in DOMAIN inner.tiles |->
                                    IF i = index THEN raw ELSE inner.tiles[i]]]
    ELSE [inner EXCEPT !.tiles = [i \in DOMAIN inner.tiles \cup {index} |->
                                    IF i = index THEN raw ELSE inner.tiles[i]]]

LayerRemoveTile(inner, index) ==
    IF inner.kind = "Dense"
    THEN [inner EXCEPT !.tiles = [i \in DOMAIN inner.tiles |->
                                    IF i = index THEN Placeholder ELSE inner.tiles[i]]]
    ELSE [inner EXCEPT !.tiles = [i \in DOMAIN inner.tiles \ {index} |->
                                    inner.tiles[i]]]

\* Option<&RawTile>: no value, or the tile.
NoTile == << >>
SomeTile(raw) == << raw >>

LayerGetTile(inner, index) ==
    IF index \in DOMAIN inner.tiles THEN SomeTile(inner.tiles[index]) ELSE NoTile

TilesToAttributes(inner, area) ==
    IF inner.kind = "Dense"
    THEN [n \in 1..Cardinality(DOMAIN inner.tiles) |-> inner.tiles[n - 1]]
    ELSE [n \in 1..area |->
            IF (n - 1) \in DOMAIN inner.tiles THEN inner.tiles[n - 1] ELSE Placeholder]

(***************************************************************************)
(* Chunk.  Every operation is an operator from the chunk (and arguments)   *)
(* to an outcome: the chunk afterwards, whether error! was called, whether *)
(* the call panicked, and the value returned.                              *)
(***************************************************************************)
SpriteLayer(inner) == [inner |-> inner, entity |-> None]

Outcome(c, err, panic, ret) == [chunk |-> c, err |-> err, panic |-> panic, ret |-> ret]

\* Vec::get(i).is_some()
Has(seq, i) == i >= 0 /\ i < Len(seq)

RECURSIVE AddLayerFrom(_, _, _, _, _, _)
AddLayerFrom(zl, err, kind, sprite_order, dims, z) ==
    IF z >= dims.depth THEN [z_layers |-> zl, err |-> err]
    ELSE IF kind = "Dense"
    THEN IF Has(zl, z)
         THEN IF Has(zl[z + 1], sprite_order)
              THEN AddLayerFrom(
                     [zl EXCEPT ![z + 1][sprite_order + 1] =
                                   SpriteLayer(DenseLayerNew(dims.width * dims.height))],
                     err, kind, sprite_order, dims, z + 1)
              ELSE AddLayerFrom(zl, err, kind, sprite_order, dims, z + 1)
         ELSE AddLayerFrom(zl, TRUE, kind, sprite_order, dims, z + 1)
    ELSE IF Has(zl, z)
         THEN IF Has(zl[z + 1], sprite_order)
              THEN AddLayerFrom(
                     [zl EXCEPT ![z + 1][sprite_order + 1] = SpriteLayer(SparseLayerNew)],
                     err, kind, sprite_order, dims, z + 1)
              ELSE AddLayerFrom(zl, TRUE, kind, sprite_order, dims, z + 1)
         ELSE AddLayerFrom(zl, err, kind, sprite_order, dims, z + 1)

add_layer(c, kind, sprite_order, dims) ==
    LET r == AddLayerFrom(c.z_layers, FALSE, kind, sprite_order, dims, 0)
    IN  Outcome([c EXCEPT !.z_layers = r.z_layers], r.err, FALSE, None)

RECURSIVE NewFrom(_, _, _, _, _)
NewFrom(c, err, ls, dims, n) ==
    IF n > Len(ls) THEN Outcome(c, err, FALSE, None)
    ELSE IF ls[n] # None
    THEN LET r == add_layer(c, ls[n], n - 1, dims)
         IN  NewFrom(r.chunk, err \/ r.err, ls, dims, n + 1)
    ELSE NewFrom(c, err, ls, dims, n + 1)

ChunkNew(point, ls, dims, mesh) ==
    NewFrom([point |-> point,
             z_layers |-> << [k \in 1..Len(ls) |-> SpriteLayer(SparseLayerNew)] >>,
             user_data |-> 0,
             mesh |-> mesh,
             entity |-> None],
            FALSE, ls, dims, 1)

\* A move that overwrites the destination and keeps the source in place.
SliceSwapOverwrite(s, a, b) ==
    [k \in 1..Len(s) |-> IF k = b + 1 THEN s[a + 1] ELSE s[k]]

\* slice::swap(a, b)
SliceSwap(s, a, b) ==
    [k \in 1..Len(s) |-> IF k = a + 1 THEN s[b + 1]
                         ELSE IF k = b + 1 THEN s[a + 1]
                         ELSE s[k]]

\* A move that swaps the z-slice before it tests whether to refuse.
RECURSIVE MoveFromSwapFirst(_, _, _, _)
MoveFromSwapFirst(c, from_sprite_order, to_sprite_order, z) ==
    IF z >= Len(c.z_layers) THEN Outcome(c, FALSE, FALSE, None)
    ELSE IF ~(Has(c.z_layers[z + 1], from_sprite_order)
              /\ Has(c.z_layers[z + 1], to_sprite_order))
    THEN Outcome(c, FALSE, TRUE, None)
    ELSE LET swapped == [c EXCEPT !.z_layers[z + 1] =
                            SliceSwap(@, from_sprite_order, to_sprite_order)]
         IN  IF Has(c.z_layers, from_sprite_order)
             THEN Outcome(swapped, TRUE, FALSE, None)
             ELSE MoveFromSwapFirst(swapped, from_sprite_order, to_sprite_order, z + 1)

RECURSIVE MoveFrom(_, _, _, _)
MoveFrom(c, from_sprite_order, to_sprite_order, z) ==
    IF z >= Len(c.z_layers) THEN Outcome(c, FALSE, FALSE, None)
    ELSE IF Has(c.z_layers, from_sprite_order)
    THEN Outcome(c, TRUE, FALSE, None)
    ELSE IF ~(Has(c.z_layers[z + 1], from_sprite_order)
              /\ Has(c.z_layers[z + 1], to_sprite_order))
    THEN Outcome(c, FALSE, TRUE, None)
    ELSE MoveFrom([c EXCEPT !.z_layers[z + 1] =
                      SliceSwap(@, from_sprite_order, to_sprite_order)],
                  from_sprite_order, to_sprite_order, z + 1)

move_sprite_order(c, from_sprite_order, to_sprite_order) ==
    MoveFrom(c, from_sprite_order, to_sprite_order, 0)

RECURSIVE SwapFrom(_, _, _, _)
SwapFrom(c, from_sprite_order, to_sprite_order, z) ==
    IF z >= Len(c.z_layers) THEN Outcome(c, FALSE, FALSE, None)
    ELSE IF ~(Has(c.z_layers[z + 1], from_sprite_order)
              /\ Has(c.z_layers[z + 1], to_sprite_order))
    THEN Outcome(c, FALSE, TRUE, None)
    ELSE SwapFrom([c EXCEPT !.z_layers[z + 1] =
                      SliceSwap(@, from_sprite_order, to_sprite_order)],
                  from_sprite_order, to_sprite_order, z + 1)

\* A swap that refuses, as a move would, when the destination holds tiles.
swap_sprite_order_guarded(c, from_sprite_order, to_sprite_order) ==
    IF \E z \in 1..Len(c.z_layers) :
          /\ Has(c.z_layers[z], to_sprite_order)
          /\ \E i \in DOMAIN c.z_layers[z][to_sprite_order + 1].inner.tiles :
                c.z_layers[z][to_sprite_order + 1].inner.tiles[i] # Placeholder
    THEN Outcome(c, TRUE, FALSE, None)
    ELSE SwapFrom(c, from_sprite_order, to_sprite_order, 0)

swap_sprite_order(c, from_sprite_order, to_sprite_order) ==
    SwapFrom(c, from_sprite_order, to_sprite_order, 0)

\* A removal that deletes the slot from every z-slice (Vec::remove).
remove_layer_shrink(c, sprite_order) ==
    Outcome([c EXCEPT !.z_layers =
                [z \in 1..Len(c.z_layers) |->
                    IF Has(c.z_layers[z], sprite_order)
                    THEN SubSeq(c.z_layers[z], 1, sprite_order)
                         \o SubSeq(c.z_layers[z], sprite_order + 2, Len(c.z_layers[z]))
                    ELSE c.z_layers[z]]],
            FALSE, FALSE, None)

\* self.z_layers.get_mut(sprite_order).take() takes the value out of the
\* temporary Option returned by get_mut; the chunk keeps all its storage.
remove_layer(c, sprite_order) == Outcome(c, FALSE, FALSE, None)

set_mesh(c, mesh) == Outcome([c EXCEPT !.mesh = mesh], FALSE, FALSE, None)

\* set_tile that writes the tile into every sprite layer of the z-slice.
set_tile_whole_slice(c, index, tile) ==
    IF Has(c.z_layers, tile.point_z)
    THEN IF Has(c.z_layers[tile.point_z + 1], tile.sprite_order)
         THEN Outcome([c EXCEPT !.z_layers[tile.point_z + 1] =
                          [k \in 1..Len(@) |->
                              [@[k] EXCEPT !.inner =
                                  LayerSetTile(@, index,
                                               [index |-> tile.sprite_index,
                                                color |-> tile.tint])]]],
                      FALSE, FALSE, None)
         ELSE Outcome(c, TRUE, FALSE, None)
    ELSE Outcome(c, FALSE, FALSE, None)

\* set_tile without the else branch that reports a missing sprite layer: the
\* tile lands in the last sprite layer of the z-slice instead.
set_tile_unchecked(c, index, tile) ==
    IF Has(c.z_layers, tile.point_z)
    THEN LET n == Len(c.z_layers[tile.point_z + 1])
             k == IF tile.sprite_order < n THEN tile.sprite_order + 1 ELSE n
         IN  IF n = 0 THEN Outcome(c, FALSE, FALSE, None)
             ELSE Outcome([c EXCEPT !.z_layers[tile.point_z + 1][k].inner =
                              LayerSetTile(@, index,
                                           [index |-> tile.sprite_index, color |-> tile.tint])],
                          FALSE, FALSE, None)
    ELSE Outcome(c, FALSE, FALSE, None)

set_tile(c, index, tile) ==
    IF Has(c.z_layers, tile.point_z)
    THEN IF Has(c.z_layers[tile.point_z + 1], tile.sprite_order)
         THEN Outcome([c EXCEPT !.z_layers[tile.point_z + 1][tile.sprite_order + 1].inner =
                          LayerSetTile(@, index,
                                       [index |-> tile.sprite_index, color |-> tile.tint])],
                      FALSE, FALSE, None)
         ELSE Outcome(c, TRUE, FALSE, None)
    ELSE Outcome(c, FALSE, FALSE, None)

\* remove_tile that finds the layer and leaves it as it is.
remove_tile_skipped(c, index, sprite_order, z_depth) ==
    IF Has(c.z_layers, z_depth)
    THEN IF Has(c.z_layers[z_depth + 1], sprite_order)
         THEN Outcome(c, FALSE, FALSE, None)
         ELSE Outcome(c, TRUE, FALSE, None)
    ELSE Outcome(c, TRUE, FALSE, None)

\* remove_tile with the two levels of addressing exchanged: the z axis
\* indexed by sprite_order and the z-slice by z_depth.
remove_tile_transposed(c, index, sprite_order, z_depth) ==
    IF Has(c.z_layers, sprite_order)
    THEN IF Has(c.z_layers[sprite_order + 1], z_depth)
         THEN Outcome([c EXCEPT !.z_layers[sprite_order + 1][z_depth + 1].inner =
                          LayerRemoveTile(@, index)],
                      FALSE, FALSE, None)
         ELSE Outcome(c, TRUE, FALSE, None)
    ELSE Outcome(c, TRUE, FALSE, None)

remove_tile(c, index, sprite_order, z_depth) ==
    IF Has(c.z_layers, z_depth)
    THEN IF Has(c.z_layers[z_depth + 1], sprite_order)
         THEN Outcome([c EXCEPT !.z_layers[z_depth + 1][sprite_order + 1].inner =
                          LayerRemoveTile(@, index)],
                      FALSE, FALSE, None)
         ELSE Outcome(c, TRUE, FALSE, None)
    ELSE Outcome(c, TRUE, FALSE, None)

add_entity(c, entity) == Outcome([c EXCEPT !.entity = entity], FALSE, FALSE, None)

\* take_entity returning a copy of the entity and leaving the slot filled.
take_entity_copy(c) == Outcome(c, FALSE, FALSE, c.entity)

take_entity(c) == Outcome([c EXCEPT !.entity = None], FALSE, FALSE, c.entity)

get_tile(c, index, sprite_order, z_depth) ==
    IF Has(c.z_layers, z_depth)
    THEN IF Has(c.z_layers[z_depth + 1], sprite_order)
         THEN LayerGetTile(c.z_layers[z_depth + 1][sprite_order + 1].inner, index)
         ELSE NoTile
    ELSE NoTile

\* The layers of a z-slice concatenated last sprite order first.
RECURSIVE PartsOfSliceReversed(_, _, _)
PartsOfSliceReversed(depth, area, k) ==
    IF k > Len(depth) THEN << >>
    ELSE PartsOfSliceReversed(depth, area, k + 1) \o TilesToAttributes(depth[k].inner, area)

RECURSIVE PartsOfSlice(_, _, _)
PartsOfSlice(depth, area, k) ==
    IF k > Len(depth) THEN << >>
    ELSE TilesToAttributes(depth[k].inner, area) \o PartsOfSlice(depth, area, k + 1)

RECURSIVE PartsFrom(_, _, _)
PartsFrom(zl, area, z) ==
    IF z > Len(zl) THEN << >>
    ELSE PartsOfSlice(zl[z], area, 1) \o PartsFrom(zl, area, z + 1)

\* The two buffers are index-aligned: entry n of the result carries
\* tile_indices[n] in .index and tile_colors[n] in .color.
tiles_to_renderer_parts(c, dims) == PartsFrom(c.z_layers, Area(dims), 1)

(***************************************************************************)
(* The state machine: a chunk is constructed, then mutated by its owner.   *)
(* pre is the chunk as it was before the last call and last records that   *)
(* call, its arguments and its outcome.                                    *)
(***************************************************************************)
NoArgs == [index |-> 0, sprite_order |-> 0, to |-> 0, z |-> 0, kind |-> None,
           raw |-> Placeholder, mesh |-> None, entity |-> None]

Record(op, args, out) ==
    [op |-> op, args |-> args, err |-> out.err, panic |-> out.panic, ret |-> out.ret]

SpriteOrders == 0..MaxLayers
ZDepths == 0..(dimensions.depth - 1)
Indices == 0..(Area(dimensions) - 1)

Init ==
    /\ dimensions \in [width : 1..MaxWidth, height : 1..MaxHeight, depth : 1..MaxDepth]
    /\ \E layers \in UNION {[1..n -> LayerKinds \cup {None}] : n \in 0..MaxLayers} :
         LET out == ChunkNew(<<0, 0>>, layers, dimensions, InitialMesh)
         IN  /\ chunk = out.chunk
             /\ layers_len = Len(layers)
             /\ pre = out.chunk
             /\ last = Record("new", [NoArgs EXCEPT !.mesh = InitialMesh], out)
    /\ nops = 0
    /\ pending = None
    /\ handed = 0

\* A call returns (or panics, which ends the process).
Call(op, args, out) ==
    /\ nops < MaxOps
    /\ ~last.panic
    /\ pre' = chunk
    /\ chunk' = out.chunk
    /\ last' = Record(op, args, out)
    /\ nops' = nops + 1
    /\ pending' = IF out.panic THEN pending
                  ELSE IF op = "add_entity" THEN args.entity
                  ELSE IF op = "take_entity" THEN None
                  ELSE pending
    /\ handed' = IF op = "take_entity" /\ out.ret # None THEN handed + 1 ELSE handed
    /\ UNCHANGED <<dimensions, layers_len>>

AddLayer ==
    \E kind \in LayerKinds, k \in SpriteOrders :
        Call("add_layer", [NoArgs EXCEPT !.kind = kind, !.sprite_order = k],
             add_layer(chunk, kind, k, dimensions))

MoveSpriteOrder ==
    \E from \in SpriteOrders, to \in SpriteOrders :
        Call("move_sprite_order", [NoArgs EXCEPT !.sprite_order = from, !.to = to],
             move_sprite_order(chunk, from, to))

SwapSpriteOrder ==
    \E from \in SpriteOrders, to \in SpriteOrders :
        Call("swap_sprite_order", [NoArgs EXCEPT !.sprite_order = from, !.to = to],
             swap_sprite_order(chunk, from, to))

RemoveLayer ==
    \E k \in SpriteOrders :
        Call("remove_layer", [NoArgs EXCEPT !.sprite_order = k], remove_layer(chunk, k))

SetMesh ==
    \E mesh \in Meshes :
        Call("set_mesh", [NoArgs EXCEPT !.mesh = mesh], set_mesh(chunk, mesh))

SetTile ==
    \E index \in Indices, raw \in RawTiles, z \in ZDepths, k \in SpriteOrders :
        Call("set_tile",
             [NoArgs EXCEPT !.index = index, !.raw = raw, !.z = z, !.sprite_order = k],
             set_tile(chunk, index,
                      [point_z |-> z, sprite_order |-> k,
                       sprite_index |-> raw.index, tint |-> raw.color]))

RemoveTile ==
    \E index \in Indices, z \in ZDepths, k \in SpriteOrders :
        Call("remove_tile", [NoArgs EXCEPT !.index = index, !.z = z, !.sprite_order = k],
             remove_tile(chunk, index, k, z))

AddEntity ==
    \E entity \in Entities :
        Call("add_entity", [NoArgs EXCEPT !.entity = entity], add_entity(chunk, entity))

TakeEntity == Call("take_entity", NoArgs, take_entity(chunk))

Next ==
    \/ AddLayer
    \/ MoveSpriteOrder
    \/ SwapSpriteOrder
    \/ RemoveLayer
    \/ SetMesh
    \/ SetTile
    \/ RemoveTile
    \/ AddEntity
    \/ TakeEntity

Spec == Init /\ [][Next]_vars

\* The same machine stopped after MaxPairOps calls: the chunks on which
\* pairs of calls are compared.
NextPairs == nops < MaxPairOps /\ Next

SpecPairs == Init /\ [][NextPairs]_vars

TypeOK ==
    /\ nops \in 0..MaxOps
    /\ last.err \in BOOLEAN
    /\ last.panic \in BOOLEAN

(***************************************************************************)
(* Properties.                                                             *)
(***************************************************************************)
Slot(c, z, k) == c.z_layers[z + 1][k + 1]

\* The sprite_order slots the chunk was configured with.
Existing(k) == k >= 0 /\ k < layers_len

\* The layer holds no tile other than placeholders.
HoldsNoTiles(layer) == \A i \in DOMAIN layer.inner.tiles : layer.inner.tiles[i] = Placeholder

\* C1: right after Chunk::new the chunk holds exactly dimensions.depth
\* z-slices and every z-slice holds exactly layers.len() sprite_order slots.
C1_NewAllocatesDepthSlices ==
    last.op = "new" =>
        /\ Len(chunk.z_layers) = dimensions.depth
        /\ \A z \in 1..Len(chunk.z_layers) : Len(chunk.z_layers[z]) = layers_len

\* C2: set_tile(i, tile) addressed at an existing sprite_order and a z in
\* [0, depth), followed by get_tile(i, sprite_order, z), returns a tile with
\* the sprite index and the tint written.
C2_SetThenGetRoundTrip ==
    (/\ last.op = "set_tile"
     /\ last.args.z \in 0..(dimensions.depth - 1)
     /\ Existing(last.args.sprite_order)
     /\ last.args.index \in Indices)
    => get_tile(chunk, last.args.index, last.args.sprite_order, last.args.z)
           = SomeTile(last.args.raw)

\* C3: after remove_layer(k) with k an existing sprite_order, get_tile(i, k, z)
\* returns no value for every z-slice z and every index i.
C3_RemoveLayerEmptiesSlot ==
    (last.op = "remove_layer" /\ Existing(last.args.sprite_order))
    => \A z \in 0..(Len(chunk.z_layers) - 1), i \in Indices :
           get_tile(chunk, i, last.args.sprite_order, z) = NoTile

\* C4: after add_layer(kind, k, dimensions) with k an existing sprite_order,
\* for every z in [0, dimensions.depth) the slot (z, k) is a fresh storage of
\* the requested kind: get_tile returns the placeholder everywhere (Dense) or
\* no value everywhere (Sparse), and the layer's contribution to
\* tiles_to_renderer_parts is all-placeholder of length area.
C4_AddLayerFreshAtEveryZ ==
    (last.op = "add_layer" /\ Existing(last.args.sprite_order))
    => LET k == last.args.sprite_order
           area == Area(dimensions)
           parts == tiles_to_renderer_parts(chunk, dimensions)
       IN  \A z \in 0..(dimensions.depth - 1) :
             /\ \A i \in Indices :
                  get_tile(chunk, i, k, z) =
                      IF last.args.kind = "Dense" THEN SomeTile(Placeholder) ELSE NoTile
             /\ Len(parts) >= (z * layers_len + k + 1) * area
             /\ \A n \in 1..area : parts[(z * layers_len + k) * area + n] = Placeholder

\* C5: add_layer(kind, k, dimensions) with k greater than or equal to the
\* number of sprite_order slots reports an error, returns normally and
\* changes no slot, for Dense and for Sparse alike.
C5_AddLayerOutOfBoundsReported ==
    (last.op = "add_layer" /\ ~Existing(last.args.sprite_order))
    => (last.err /\ ~last.panic /\ chunk.z_layers = pre.z_layers)

\* C6: set_tile whose tile.sprite_order is beyond the configured layer count,
\* with tile.point.z an existing z-slice, reports an error and leaves every
\* tile of every layer at every z unchanged.
C6_SetTileBeyondLayersRejected ==
    (/\ last.op = "set_tile"
     /\ Has(pre.z_layers, last.args.z)
     /\ ~Existing(last.args.sprite_order))
    => (last.err /\ ~last.panic /\ chunk.z_layers = pre.z_layers)

\* C6 witness: a rejected set_tile on a chunk that already holds a tile.
C6_Witness ==
    /\ last.op = "set_tile"
    /\ Has(pre.z_layers, last.args.z)
    /\ ~Existing(last.args.sprite_order)
    /\ last.err
    /\ \E z \in 0..(Len(pre.z_layers) - 1), k \in 0..(layers_len - 1) :
           ~HoldsNoTiles(Slot(pre, z, k))

\* C7: whenever add_layer, move_sprite_order, set_tile or remove_tile reports
\* an error, the chunk after the call is identical to the chunk before it.
C7_ErrorMeansNoMutation ==
    (/\ last.op \in {"add_layer", "move_sprite_order", "set_tile", "remove_tile"}
     /\ last.err)
    => chunk = pre

\* C8: move_sprite_order(from, to) with from and to distinct existing slots
\* and the slot `to` holding no tiles at any z succeeds without an error and
\* swaps the contents of the two slots at every z.
C8_MoveToEmptySlotSwaps ==
    (/\ last.op = "move_sprite_order"
     /\ last.args.sprite_order # last.args.to
     /\ Existing(last.args.sprite_order)
     /\ Existing(last.args.to)
     /\ \A z \in 0..(Len(pre.z_layers) - 1) : HoldsNoTiles(Slot(pre, z, last.args.to)))
    => /\ ~last.err
       /\ ~last.panic
       /\ Len(chunk.z_layers) = Len(pre.z_layers)
       /\ \A z \in 0..(Len(pre.z_layers) - 1) :
            /\ Slot(chunk, z, last.args.to) = Slot(pre, z, last.args.sprite_order)
            /\ Slot(chunk, z, last.args.sprite_order) = Slot(pre, z, last.args.to)

\* C9: move_sprite_order(from, to) with the slot `to` holding at least one
\* tile at some z reports a move-conflict error and leaves every slot at
\* every z unchanged.
C9_MoveOntoOccupiedSlotRefused ==
    (/\ last.op = "move_sprite_order"
     /\ Existing(last.args.sprite_order)
     /\ Existing(last.args.to)
     /\ \E z \in 0..(Len(pre.z_layers) - 1) : ~HoldsNoTiles(Slot(pre, z, last.args.to)))
    => (last.err /\ chunk.z_layers = pre.z_layers)

\* C10: swap_sprite_order(a, b) is its own inverse: after a call on existing
\* slots a and b, a second swap_sprite_order(a, b) leaves every slot at every
\* z as it was before the first call.
C10_SwapTwiceRestores ==
    (/\ last.op = "swap_sprite_order"
     /\ Existing(last.args.sprite_order)
     /\ Existing(last.args.to))
    => LET again == swap_sprite_order(chunk, last.args.sprite_order, last.args.to)
       IN  ~last.panic /\ ~again.panic /\ again.chunk.z_layers = pre.z_layers

\* C10 witness: a swap of two distinct slots that changed the chunk.
C10_Witness ==
    /\ last.op = "swap_sprite_order"
    /\ Existing(last.args.sprite_order)
    /\ Existing(last.args.to)
    /\ last.args.sprite_order # last.args.to
    /\ chunk.z_layers # pre.z_layers
    /\ \E z \in 0..(Len(pre.z_layers) - 1) : ~HoldsNoTiles(Slot(pre, z, last.args.to))

C12_RendererPartsLayout ==
    LET area == Area(dimensions)
        parts == tiles_to_renderer_parts(chunk, dimensions)
    IN  /\ Len(parts) = Len(chunk.z_layers) * layers_len * area
        /\ \A z \in 0..(Len(chunk.z_layers) - 1), k \in 0..(layers_len - 1), i \in Indices :
             parts[(z * layers_len + k) * area + i + 1] =
                 IF get_tile(chunk, i, k, z) = NoTile THEN Placeholder
                 ELSE get_tile(chunk, i, k, z)[1]

\* C12 witness: two sprite layers of area 2, a Dense one with only index 1
\* set and a Sparse one with different content.
C12_Witness ==
    /\ layers_len = 2
    /\ Area(dimensions) = 2
    /\ \E k \in {0, 1} :
         /\ Slot(chunk, 0, k).inner.kind = "Dense"
         /\ Slot(chunk, 0, 1 - k).inner.kind = "Sparse"
         /\ get_tile(chunk, 0, k, 0) = SomeTile(Placeholder)
         /\ get_tile(chunk, 1, k, 0) \notin {NoTile, SomeTile(Placeholder)}
         /\ get_tile(chunk, 0, 1 - k, 0) # NoTile
         /\ get_tile(chunk, 1, 1 - k, 0) = NoTile

\* C13: no Chunk operation aborts the process, whatever its arguments: every
\* call returns normally.
C13_NoOperationPanics == ~last.panic

(***************************************************************************)
(* Calls as values: an operation name and its arguments, as last records   *)
(* them, and the application of a call to a chunk.                         *)
(***************************************************************************)
CallOf(op, args) == [op |-> op, args |-> args]

Apply(c, call) ==
    CASE call.op = "add_layer" ->
           add_layer(c, call.args.kind, call.args.sprite_order, dimensions)
      [] call.op = "move_sprite_order" ->
           move_sprite_order(c, call.args.sprite_order, call.args.to)
      [] call.op = "swap_sprite_order" ->
           swap_sprite_order(c, call.args.sprite_order, call.args.to)
      [] call.op = "remove_layer" -> remove_layer(c, call.args.sprite_order)
      [] call.op = "set_mesh" -> set_mesh(c, call.args.mesh)
      [] call.op = "set_tile" ->
           set_tile(c, call.args.index,
                    [point_z |-> call.args.z, sprite_order |-> call.args.sprite_order,
                     sprite_index |-> call.args.raw.index, tint |-> call.args.raw.color])
      [] call.op = "remove_tile" ->
           remove_tile(c, call.args.index, call.args.sprite_order, call.args.z)
      [] call.op = "add_entity" -> add_entity(c, call.args.entity)
      [] call.op = "take_entity" -> take_entity(c)
      [] OTHER -> Outcome(c, FALSE, FALSE, None)

\* The calls of every mutation operation other than move_sprite_order.
CommutingOps == {"add_layer", "remove_layer", "swap_sprite_order", "set_tile",
                 "remove_tile", "set_mesh", "add_entity", "take_entity"}

Calls ==
    {CallOf("add_layer", [NoArgs EXCEPT !.kind = kind, !.sprite_order = k]) :
        kind \in LayerKinds, k \in SpriteOrders}
    \cup {CallOf("remove_layer", [NoArgs EXCEPT !.sprite_order = k]) : k \in SpriteOrders}
    \cup {CallOf("swap_sprite_order", [NoArgs EXCEPT !.sprite_order = from, !.to = to]) :
            from \in SpriteOrders, to \in SpriteOrders}
    \cup {CallOf("set_tile",
                 [NoArgs EXCEPT !.index = index, !.raw = raw, !.z = z, !.sprite_order = k]) :
            index \in Indices, raw \in RawTiles, z \in ZDepths, k \in SpriteOrders}
    \cup {CallOf("remove_tile", [NoArgs EXCEPT !.index = index, !.z = z, !.sprite_order = k]) :
            index \in Indices, z \in ZDepths, k \in SpriteOrders}
    \cup {CallOf("set_mesh", [NoArgs EXCEPT !.mesh = mesh]) : mesh \in Meshes}
    \cup {CallOf("add_entity", [NoArgs EXCEPT !.entity = entity]) : entity \in Entities}
    \cup {CallOf("take_entity", NoArgs)}

\* The part of the chunk a call addresses: a field of the chunk and, within
\* z_layers, sprite_order slots and (for the tile operations) one cell.
FieldOf(call) ==
    IF call.op = "set_mesh" THEN "mesh"
    ELSE IF call.op \in {"add_entity", "take_entity"} THEN "entity"
    ELSE "z_layers"

SlotsOf(call) ==
    IF call.op = "swap_sprite_order" THEN {call.args.sprite_order, call.args.to}
    ELSE {call.args.sprite_order}

IsTileOp(call) == call.op \in {"set_tile", "remove_tile"}

CellOf(call) == <<call.args.z, call.args.sprite_order, call.args.index>>

Disjoint(c1, c2) ==
    \/ FieldOf(c1) # FieldOf(c2)
    \/ /\ FieldOf(c1) = "z_layers"
       /\ \/ SlotsOf(c1) \cap SlotsOf(c2) = {}
          \/ IsTileOp(c1) /\ IsTileOp(c2) /\ CellOf(c1) # CellOf(c2)

\* The last call and the call c2, applied to the chunk as it was before the
\* last call, give the same chunk in either order (all calls returning).
CommutesWithLast(c2) ==
    LET c1 == CallOf(last.op, last.args)
        second == Apply(pre, c2)
    IN  (~last.panic /\ ~second.panic)
        => LET c2c1 == Apply(second.chunk, c1)
               c1c2 == Apply(chunk, c2)
           IN  (~c2c1.panic /\ ~c1c2.panic) => c2c1.chunk = c1c2.chunk

\* C14 (as claimed): any two calls drawn from add_layer, remove_layer,
\* swap_sprite_order, set_tile, remove_tile, set_mesh, add_entity and
\* take_entity give the same final chunk in either order.
C14_AllCallsCommute ==
    last.op \in CommutingOps => \A c2 \in Calls : CommutesWithLast(c2)

\* C14 (amended): two such calls that return normally and address disjoint
\* parts of the chunk (different fields; within z_layers, different
\* sprite_order slots, or different cells for two tile operations) give the
\* same final chunk in either order.
C14_DisjointCallsCommute ==
    last.op \in CommutingOps
    => \A c2 \in Calls : Disjoint(CallOf(last.op, last.args), c2) => CommutesWithLast(c2)

\* C14 witness: a set_tile that changed the chunk, and a disjoint call on
\* the layers that changes it too.
C14_Witness ==
    /\ last.op = "set_tile"
    /\ chunk # pre
    /\ \E c2 \in Calls :
         /\ FieldOf(c2) = "z_layers"
         /\ Disjoint(CallOf(last.op, last.args), c2)
         /\ ~Apply(pre, c2).panic
         /\ Apply(pre, c2).chunk # pre
         /\ Apply(chunk, c2).chunk # chunk

\* C15: the entity slot is handed out at most once per add_entity:
\* take_entity returns the entity stored by the most recent add_entity and
\* clears the slot, so a take_entity with no add_entity since the previous
\* take_entity (or since construction) returns no value.
C15_EntityHandedOutOnce ==
    /\ chunk.entity = pending
    /\ last.op = "take_entity" => (last.ret = pre.entity /\ chunk.entity = None)
    /\ last.op = "add_entity" => chunk.entity = last.args.entity

\* C15 witness: an entity was handed out, and the take_entity that followed
\* with no add_entity in between returned no value.
C15_Witness ==
    /\ last.op = "take_entity"
    /\ handed = 1
    /\ pre.entity = None
    /\ last.ret = None

\* C16: after construction no call changes the number of z-slices or the
\* number of sprite_order slots of any z-slice; every (z, sprite_order)
\* position holds a layer storage, and remove_layer removes no slot.
C16_SlotArrayShapeIsStable ==
    /\ Len(chunk.z_layers) = Len(pre.z_layers)
    /\ \A z \in 1..Len(chunk.z_layers) :
         /\ Len(chunk.z_layers[z]) = Len(pre.z_layers[z])
         /\ Len(chunk.z_layers[z]) = layers_len
         /\ \A k \in 1..Len(chunk.z_layers[z]) :
              chunk.z_layers[z][k].inner.kind \in LayerKinds

\* C16 witness: a remove_layer on an existing slot of a chunk that holds
\* tiles, after other calls.
C16_Witness ==
    /\ last.op = "remove_layer"
    /\ Existing(last.args.sprite_order)
    /\ nops >= 2
    /\ \E z \in 0..(Len(pre.z_layers) - 1) : ~HoldsNoTiles(Slot(pre, z, last.args.sprite_order))

\* The last call wrote, or removed, index i of the layer at (z, k).
WrittenByLast(i, k, z) ==
    /\ last.op = "set_tile"
    /\ last.args.index = i /\ last.args.sprite_order = k /\ last.args.z = z

RemovedByLast(i, k, z) ==
    /\ last.op = "remove_tile"
    /\ last.args.index = i /\ last.args.sprite_order = k /\ last.args.z = z

\* The sprite order at which the layer now at sprite order k stood before
\* the last call: the other slot of a swap or move that went through.
Origin(k) ==
    IF last.op \in {"swap_sprite_order", "move_sprite_order"} /\ ~last.err /\ ~last.panic
    THEN IF k = last.args.sprite_order THEN last.args.to
         ELSE IF k = last.args.to THEN last.args.sprite_order
         ELSE k
    ELSE k

\* C17: a Sparse layer returns no value at index i unless a set_tile wrote i
\* to that layer since it was created and no remove_tile of i followed: a
\* value at i comes from the last set_tile or was already held by the layer,
\* remove_tile leaves no value at i, and removing an absent entry changes
\* nothing.
C17_SparseNoValueUntilSet ==
    \A z \in 0..(Len(chunk.z_layers) - 1), k \in 0..(layers_len - 1), i \in Indices :
        Slot(chunk, z, k).inner.kind = "Sparse"
        => /\ get_tile(chunk, i, k, z) # NoTile
                => \/ WrittenByLast(i, k, z)
                   \/ /\ last.op # "new"
                      /\ ~RemovedByLast(i, k, z)
                      /\ Slot(pre, z, Origin(k)).inner.kind = "Sparse"
                      /\ get_tile(pre, i, Origin(k), z) = get_tile(chunk, i, k, z)
           /\ RemovedByLast(i, k, z)
                => /\ get_tile(chunk, i, k, z) = NoTile
                   /\ get_tile(pre, i, k, z) = NoTile => chunk = pre

\* C17 witness: remove_tile took a tile out of a Sparse layer.
C17_Witness ==
    \E z \in 0..(Len(chunk.z_layers) - 1), k \in 0..(layers_len - 1), i \in Indices :
        /\ RemovedByLast(i, k, z)
        /\ Slot(pre, z, k).inner.kind = "Sparse"
        /\ get_tile(pre, i, k, z) # NoTile
        /\ get_tile(chunk, i, k, z) = NoTile

\* The index i of the layer at (z, k) reads the same before and after the
\* last call.
SameCell(i, k, z) == get_tile(chunk, i, k, z) = get_tile(pre, i, k, z)

\* C18: set_tile(index, tile) changes at most the cell `index` of the layer
\* at (tile.point.z, tile.sprite_order): every other cell of that layer,
\* every other layer, the kind of every layer, and the point, mesh handle
\* and entity slot are unchanged; when tile.point.z is not an existing
\* z-slice nothing changes and no error is reported.
C18_SetTileTouchesOneCell ==
    last.op = "set_tile"
    => /\ ~last.panic
       /\ [chunk EXCEPT !.z_layers = pre.z_layers] = pre
       /\ Len(chunk.z_layers) = Len(pre.z_layers)
       /\ \A z \in 0..(Len(pre.z_layers) - 1) :
            /\ Len(chunk.z_layers[z + 1]) = Len(pre.z_layers[z + 1])
            /\ \A k \in 0..(Len(pre.z_layers[z + 1]) - 1) :
                 /\ Slot(chunk, z, k).inner.kind = Slot(pre, z, k).inner.kind
                 /\ Slot(chunk, z, k).entity = Slot(pre, z, k).entity
                 /\ (z # last.args.z \/ k # last.args.sprite_order)
                      => Slot(chunk, z, k) = Slot(pre, z, k)
                 /\ \A i \in (DOMAIN Slot(chunk, z, k).inner.tiles
                              \cup DOMAIN Slot(pre, z, k).inner.tiles) \ {last.args.index} :
                      SameCell(i, k, z)
       /\ ~Has(pre.z_layers, last.args.z) => (chunk = pre /\ ~last.err)

\* C18 witness: a set_tile that changed its cell while another cell of the
\* same layer and a cell of another layer held tiles.
C18_Witness ==
    /\ last.op = "set_tile"
    /\ chunk # pre
    /\ \E i \in Indices \ {last.args.index} :
         get_tile(pre, i, last.args.sprite_order, last.args.z) \notin {NoTile, SomeTile(Placeholder)}
    /\ \E k \in 0..(layers_len - 1) \ {last.args.sprite_order} :
         ~HoldsNoTiles(Slot(pre, last.args.z, k))

\* C19: move_sprite_order(from, to) with both sprite orders existing either
\* reports an error and leaves every z-slice unchanged, or has exactly the
\* effect of swap_sprite_order(from, to) at every z-slice.
C19_MoveIsAllOrNothing ==
    (/\ last.op = "move_sprite_order"
     /\ Existing(last.args.sprite_order)
     /\ Existing(last.args.to))
    => /\ ~last.panic
       /\ \/ last.err /\ chunk = pre
          \/ /\ ~last.err
             /\ chunk = swap_sprite_order(pre, last.args.sprite_order, last.args.to).chunk

\* C19 witness: a move between two existing slots with different content
\* that went through.
C19_Witness ==
    /\ last.op = "move_sprite_order"
    /\ Existing(last.args.sprite_order)
    /\ Existing(last.args.to)
    /\ ~last.err
    /\ chunk # pre

====
